---- MODULE Spec2Model ----
(***************************************************************************)
(* A model of the trading client: the money-management engine              *)
(* (src/data/mockData.ts: level table, tier resolver, progress calculator, *)
(* trading-permission gate) and the trade flow of App.tsx (handleTrade,    *)
(* executeTrade, the order and account polls) against the trading backend. *)
(*                                                                         *)
(* Money is counted in integer cents, lot sizes in hundredths of a lot.    *)
(* A JavaScript number is a record [k, n, d]: k = "num" is the rational    *)
(* n/d (d > 0), k = "nan" is NaN, k = "inf" is +Infinity (n = 1) or        *)
(* -Infinity (n = -1).                                                     *)
(***************************************************************************)
EXTENDS Integers, Sequences, FiniteSets, Bags, TLC

VARIABLES
    moneyManagementLevels, \* the level table (module-level array)
    balance,               \* engine input: account balance / equity
    dailyProfit,           \* engine input: profit realized today
    ret,                   \* the last engine call and what it returned
    isLoggedIn,            \* App state (useState hooks of App.tsx)
    account,
    tradeHistory,
    dailyRealizedProfit,
    isModalVisible,
    tradeType,
    serverOrders,          \* backend: every order of the account, by ticket
    serverEquity,          \* backend: account equity in cents
    today,                 \* the current UTC calendar day
    sendOrders,            \* sendOrder calls in flight (a bag)
    orderFetches,          \* fetchAllOrders calls in flight (a bag)
    accountFetches,        \* fetchAccountSummary calls in flight (a bag)
    now,                   \* Date.now(), in milliseconds
    lastEnsureConnectedTime, \* backendApi.ts module state
    savedCredentials,      \* Storage holds the login credentials
    apiCalls,              \* backendApi calls in progress (a bag)
    clearing,              \* a clearSession call is awaiting Storage
    credentialsSent,       \* backend: when ensureConnected posted credentials
    restore                \* the restoreSession call: where it is, what it saw

engineVars == <<moneyManagementLevels, balance, dailyProfit, ret>>
clientVars == <<isLoggedIn, account, tradeHistory, dailyRealizedProfit,
                isModalVisible, tradeType>>
serverVars == <<serverOrders, serverEquity, today>>
flightVars == <<sendOrders, orderFetches, accountFetches>>
connVars == <<now, lastEnsureConnectedTime, savedCredentials, apiCalls, clearing,
              credentialsSent, restore>>
appVars == <<clientVars, serverVars, flightVars, connVars>>
vars == <<engineVars, appVars>>

----------------------------------------------------------------------------
(* JavaScript number arithmetic, as far as the engine uses it.             *)

JSNum(i) == [k |-> "num", n |-> i, d |-> 1]
NaN == [k |-> "nan", n |-> 0, d |-> 1]
PosInf == [k |-> "inf", n |-> 1, d |-> 1]
NegInf == [k |-> "inf", n |-> -1, d |-> 1]

IsNaN(a) == a.k = "nan"
IsFinite(a) == a.k = "num"
Sign(i) == IF i > 0 THEN 1 ELSE IF i < 0 THEN -1 ELSE 0

\* a < b on the extended reals; only used when neither side is NaN.
Less(a, b) ==
    IF a.k = "inf" THEN a.n < 0 /\ ~(b.k = "inf" /\ b.n < 0)
    ELSE IF b.k = "inf" THEN b.n > 0
    ELSE a.n * b.d < b.n * a.d

\* JS relational operators: every comparison with NaN is false.
jsGe(a, b) == ~IsNaN(a) /\ ~IsNaN(b) /\ ~Less(a, b)
jsLe(a, b) == ~IsNaN(a) /\ ~IsNaN(b) /\ ~Less(b, a)
jsEq(a, b) == jsGe(a, b) /\ jsLe(a, b)

jsSub(a, b) ==
    IF IsNaN(a) \/ IsNaN(b) THEN NaN
    ELSE IF a.k = "inf" THEN (IF b.k = "inf" /\ b.n = a.n THEN NaN ELSE a)
    ELSE IF b.k = "inf" THEN (IF b.n > 0 THEN NegInf ELSE PosInf)
    ELSE [k |-> "num", n |-> a.n * b.d - b.n * a.d, d |-> a.d * b.d]

jsMul(a, b) ==
    IF IsNaN(a) \/ IsNaN(b) THEN NaN
    ELSE IF a.k = "inf" \/ b.k = "inf"
         THEN (IF a.n = 0 \/ b.n = 0 THEN NaN
               ELSE IF Sign(a.n) * Sign(b.n) > 0 THEN PosInf ELSE NegInf)
    ELSE [k |-> "num", n |-> a.n * b.n, d |-> a.d * b.d]

jsDiv(a, b) ==
    IF IsNaN(a) \/ IsNaN(b) THEN NaN
    ELSE IF b.k = "inf" THEN (IF a.k = "inf" THEN NaN ELSE JSNum(0))
    ELSE IF b.n = 0 THEN (IF a.n = 0 THEN NaN
                          ELSE IF a.n > 0 THEN PosInf ELSE NegInf)
    ELSE IF a.k = "inf"
         THEN (IF Sign(a.n) * Sign(b.n) > 0 THEN PosInf ELSE NegInf)
    ELSE [k |-> "num", n |-> a.n * b.d * Sign(b.n),
                       d |-> a.d * b.n * Sign(b.n)]

\* Math.max / Math.min: NaN if either argument is NaN.
MathMax(a, b) == IF IsNaN(a) \/ IsNaN(b) THEN NaN ELSE IF Less(a, b) THEN b ELSE a
MathMin(a, b) == IF IsNaN(a) \/ IsNaN(b) THEN NaN ELSE IF Less(b, a) THEN b ELSE a

----------------------------------------------------------------------------
(* The level table.                                                        *)

MoneyLevel(l, b, lot, dt, wt, mt) ==
    [level |-> l, balance |-> b, lotSize |-> lot, dailyTarget |-> dt,
     weeklyTarget |-> wt, monthlyTarget |-> mt, completed |-> FALSE]

\* A table in which a tier was entered twice.
LevelTableDuplicateTier ==
    << MoneyLevel(1, 10000, 1, 300, 1500, 6000),
       MoneyLevel(2, 15000, 1, 450, 2250, 9000),
       MoneyLevel(2, 15000, 1, 450, 2250, 9000),
       MoneyLevel(3, 22500, 2, 675, 3375, 13500) >>

\* A table in which a higher tier trades a smaller lot than the tier below.
LevelTableLotShrinks ==
    << MoneyLevel(1, 10000, 1, 300, 1500, 6000),
       MoneyLevel(2, 15000, 2, 450, 2250, 9000),
       MoneyLevel(3, 22500, 1, 675, 3375, 13500) >>

LevelTable ==
    << MoneyLevel(1, 10000, 1, 300, 1500, 6000),
       MoneyLevel(2, 15000, 1, 450, 2250, 9000),
       MoneyLevel(3, 22500, 2, 675, 3375, 13500),
       MoneyLevel(4, 33750, 3, 1013, 5063, 20250),
       MoneyLevel(5, 50625, 5, 1519, 7594, 30375),
       MoneyLevel(6, 75938, 8, 2278, 11391, 45563),
       MoneyLevel(7, 113906, 12, 3417, 17083, 68344),
       MoneyLevel(8, 170859, 20, 5126, 25628, 102515),
       MoneyLevel(9, 256289, 30, 7689, 38444, 153778),
       MoneyLevel(10, 384434, 50, 11533, 57667, 230667),
       MoneyLevel(11, 576651, 80, 17299, 86494, 345975),
       MoneyLevel(12, 864976, 130, 25949, 129746, 518984),
       MoneyLevel(13, 1297463, 200, 38924, 194619, 778475),
       MoneyLevel(14, 1946194, 300, 58386, 291932, 1167728),
       MoneyLevel(15, 2919291, 500, 87579, 437893, 1751571),
       MoneyLevel(16, 4378937, 800, 131368, 656842, 2627369),
       MoneyLevel(17, 6568405, 1300, 197052, 985260, 3941040),
       MoneyLevel(18, 9852608, 2000, 295578, 1477891, 5911564),
       MoneyLevel(19, 14778912, 3000, 443367, 2216836, 8867344),
       MoneyLevel(20, 22168368, 5000, 665051, 3325256, 13301024) >>

----------------------------------------------------------------------------
(* Tier resolver.                                                          *)

\* The loop of getCurrentLevel from 0-based index i downward.
RECURSIVE scanLevels(_, _)
scanLevels(b, i) ==
    IF i < 0 THEN moneyManagementLevels[1]
    ELSE IF jsGe(b, JSNum(moneyManagementLevels[i + 1].balance))
         THEN moneyManagementLevels[i + 1]
         ELSE scanLevels(b, i - 1)

RECURSIVE scanLevelsStrict(_, _)
scanLevelsStrict(b, i) ==
    IF i < 0 THEN moneyManagementLevels[1]
    ELSE IF jsGe(b, JSNum(moneyManagementLevels[i + 1].balance))
            /\ ~jsEq(b, JSNum(moneyManagementLevels[i + 1].balance))
         THEN moneyManagementLevels[i + 1]
         ELSE scanLevelsStrict(b, i - 1)

\* getCurrentLevel with > in place of >=.
getCurrentLevelStrict(b) == scanLevelsStrict(b, Len(moneyManagementLevels) - 1)

\* getCurrentLevel whose fall-through returns the last tier instead of the first.
getCurrentLevelNoFloor(b) ==
    IF \E i \in 1..Len(moneyManagementLevels) :
           jsGe(b, JSNum(moneyManagementLevels[i].balance))
    THEN scanLevels(b, Len(moneyManagementLevels) - 1)
    ELSE moneyManagementLevels[Len(moneyManagementLevels)]

\* getCurrentLevel that scans upward and returns the first tier it qualifies for.
getCurrentLevelFirstMatch(b) ==
    LET hits == {i \in 1..Len(moneyManagementLevels) :
                     jsGe(b, JSNum(moneyManagementLevels[i].balance))}
    IN IF hits = {} THEN moneyManagementLevels[1]
       ELSE moneyManagementLevels[CHOOSE i \in hits : \A j \in hits : i <= j]

\* getCurrentLevel with the comparison turned round (balance <= threshold).
RECURSIVE scanLevelsReversed(_, _)
scanLevelsReversed(b, i) ==
    IF i < 0 THEN moneyManagementLevels[1]
    ELSE IF jsLe(b, JSNum(moneyManagementLevels[i + 1].balance))
         THEN moneyManagementLevels[i + 1]
         ELSE scanLevelsReversed(b, i - 1)

getCurrentLevelReversed(b) == scanLevelsReversed(b, Len(moneyManagementLevels) - 1)

getCurrentLevel(b) == scanLevels(b, Len(moneyManagementLevels) - 1)

\* Array.prototype.findIndex(l => l.level === level): 0-based, -1 if absent.
findIndex(level) ==
    LET hits == {i \in 1..Len(moneyManagementLevels) :
                     moneyManagementLevels[i].level = level}
    IN IF hits = {} THEN -1
       ELSE (CHOOSE i \in hits : \A j \in hits : i <= j) - 1

\* getNextLevel that forgets the + 1 and returns the current tier.
getNextLevelSame(b) ==
    LET nextIndex == findIndex(getCurrentLevel(b).level)
    IN IF nextIndex < Len(moneyManagementLevels)
       THEN << moneyManagementLevels[nextIndex + 1] >>
       ELSE << >>

\* getNextLevel that clamps the index to the last tier instead of returning null.
getNextLevelClamped(b) ==
    LET currentLevel == getCurrentLevel(b)
        nextIndex == findIndex(currentLevel.level) + 1
    IN IF nextIndex < Len(moneyManagementLevels)
       THEN << moneyManagementLevels[nextIndex + 1] >>
       ELSE << moneyManagementLevels[Len(moneyManagementLevels)] >>

\* MoneyLevel | null is << level >> or << >>.
getNextLevel(b) ==
    LET currentLevel == getCurrentLevel(b)
        nextIndex == findIndex(currentLevel.level) + 1
    IN IF nextIndex < Len(moneyManagementLevels)
       THEN << moneyManagementLevels[nextIndex + 1] >>
       ELSE << >>

----------------------------------------------------------------------------
(* Progress calculator.                                                    *)

\* getProgressToNextLevel that reports 0 at the maximum level.
getProgressToNextLevelZeroAtMax(b) ==
    LET currentLevel == getCurrentLevel(b)
        nextLevel == getNextLevel(b)
    IN IF nextLevel = << >> THEN JSNum(0)
       ELSE MathMin(MathMax(
                jsMul(jsDiv(jsSub(b, JSNum(currentLevel.balance)),
                            jsSub(JSNum(nextLevel[1].balance), JSNum(currentLevel.balance))),
                      JSNum(100)),
                JSNum(0)), JSNum(100))

\* getProgressToNextLevel without the lower clamp.
getProgressToNextLevelNoMax(b) ==
    LET currentLevel == getCurrentLevel(b)
        nextLevel == getNextLevel(b)
    IN IF nextLevel = << >> THEN JSNum(100)
       ELSE MathMin(
                jsMul(jsDiv(jsSub(b, JSNum(currentLevel.balance)),
                            jsSub(JSNum(nextLevel[1].balance), JSNum(currentLevel.balance))),
                      JSNum(100)),
                JSNum(100))

\* getProgressToNextLevel that divides by the next threshold instead of the
\* distance between the two thresholds.
getProgressToNextLevelOverNext(b) ==
    LET currentLevel == getCurrentLevel(b)
        nextLevel == getNextLevel(b)
    IN IF nextLevel = << >> THEN JSNum(100)
       ELSE MathMin(MathMax(
                jsMul(jsDiv(jsSub(b, JSNum(currentLevel.balance)),
                            JSNum(nextLevel[1].balance)),
                      JSNum(100)),
                JSNum(0)), JSNum(100))

getProgressToNextLevel(b) ==
    LET currentLevel == getCurrentLevel(b)
        nextLevel == getNextLevel(b)
    IN IF nextLevel = << >> THEN JSNum(100)
       ELSE LET progress ==
                    jsMul(jsDiv(jsSub(b, JSNum(currentLevel.balance)),
                                jsSub(JSNum(nextLevel[1].balance),
                                      JSNum(currentLevel.balance))),
                          JSNum(100))
            IN MathMin(MathMax(progress, JSNum(0)), JSNum(100))

\* isDailyTargetReached with > in place of >=.
isDailyTargetReachedStrict(b, p) ==
    LET currentLevel == getCurrentLevel(b)
    IN jsGe(p, JSNum(currentLevel.dailyTarget))
       /\ ~jsEq(p, JSNum(currentLevel.dailyTarget))

isDailyTargetReached(b, p) ==
    LET currentLevel == getCurrentLevel(b)
    IN jsGe(p, JSNum(currentLevel.dailyTarget))

\* getRemainingDailyTarget without Math.max(0, ...).
getRemainingDailyTargetNoClamp(b, p) ==
    LET currentLevel == getCurrentLevel(b)
    IN jsSub(JSNum(currentLevel.dailyTarget), p)

getRemainingDailyTarget(b, p) ==
    LET currentLevel == getCurrentLevel(b)
    IN MathMax(JSNum(0), jsSub(JSNum(currentLevel.dailyTarget), p))

\* getDailyTargetProgress without its zero-target guard.
getDailyTargetProgressNoGuard(b, p) ==
    LET currentLevel == getCurrentLevel(b)
    IN MathMin(jsMul(jsDiv(p, JSNum(currentLevel.dailyTarget)), JSNum(100)),
               JSNum(100))

getDailyTargetProgress(b, p) ==
    LET currentLevel == getCurrentLevel(b)
    IN IF currentLevel.dailyTarget <= 0 THEN JSNum(0)
       ELSE MathMin(jsMul(jsDiv(p, JSNum(currentLevel.dailyTarget)), JSNum(100)),
                    JSNum(100))

----------------------------------------------------------------------------------------------------------------------------------------
(* App.tsx: client state, the backend it talks to, and requests in flight. *)

MaxTickets == 1
MaxInFlight == 2

\* The realized profit of a position when it closes, and the side the trader
\* picks on the trade screen.
ProfitOutcomes == {450}

\* The floating profit the backend reports for a position that is still open.
FloatingProfit == 120
TradeTypes == {"BUY"}

mockAccountData == [equity |-> 0, openPositions |-> 0]

\* The account's history before the session, as the backend lists it among
\* the closed orders: a deposit made today (a Balance operation) and one
\* trade closed the day before.
Deposit ==
    [ticket |-> 0, orderType |-> "Balance", symbol |-> "", profit |-> 14500,
     closeTime |-> << 0 >>, closePrice |-> 0, state |-> "Filled"]

YesterdaysTrade ==
    [ticket |-> 1, orderType |-> "Buy", symbol |-> "XAUUSDm", profit |-> 300,
     closeTime |-> << -1 >>, closePrice |-> 1, state |-> "Filled"]

InitApp ==
    /\ isLoggedIn = FALSE
    /\ account = mockAccountData
    /\ tradeHistory = << >>
    /\ dailyRealizedProfit = 0
    /\ isModalVisible = FALSE
    /\ tradeType = "null"
    /\ serverOrders = << Deposit, YesterdaysTrade >>
    /\ serverEquity = 15100
    /\ today = 0
    /\ sendOrders = EmptyBag
    /\ orderFetches = EmptyBag
    /\ accountFetches = EmptyBag

BagAdd(bag, x) == bag (+) SetToBag({x})
BagRemove(bag, x) == bag (-) SetToBag({x})

\* closeTime is << >> (absent) or << day >>.
isToday(dateString) == dateString = today

convertOpenOrderToTrade(order) ==
    LET isOpen == \/ order.closeTime = << >>
                  \/ order.closePrice = 0
                  \/ order.state \in {"Started", "Placed", "Filled"}
    IN [id |-> order.ticket,
        type |-> IF order.orderType = "Buy" THEN "BUY" ELSE "SELL",
        openTime |-> order.ticket,
        closeTime |-> order.closeTime,
        profit |-> order.profit,
        status |-> IF isOpen THEN "OPEN" ELSE "CLOSED"]

convertClosedOrderToTrade(order) ==
    [id |-> order.ticket,
     type |-> IF order.orderType = "Buy" THEN "BUY" ELSE "SELL",
     openTime |-> order.ticket,
     closeTime |-> order.closeTime,
     profit |-> order.profit,
     status |-> "CLOSED"]

tradeOrderTypes ==
    {"Buy", "Sell", "BuyLimit", "SellLimit", "BuyStop", "SellStop",
     "BuyStopLimit", "SellStopLimit"}

IsTradeOrder(order) == order.orderType \in tradeOrderTypes /\ order.symbol # ""

RECURSIVE MapOrders(_, _)
MapOrders(seq, open) ==
    IF seq = << >> THEN << >>
    ELSE << IF open THEN convertOpenOrderToTrade(Head(seq))
            ELSE convertClosedOrderToTrade(Head(seq)) >>
         \o MapOrders(Tail(seq), open)

RECURSIVE FilterOrders(_)
FilterOrders(seq) ==
    IF seq = << >> THEN << >>
    ELSE (IF IsTradeOrder(Head(seq)) THEN << Head(seq) >> ELSE << >>)
         \o FilterOrders(Tail(seq))

\* The sum over all closed trades, whatever their close day.
RECURSIVE SumAllProfit(_)
SumAllProfit(trades) ==
    IF trades = << >> THEN 0
    ELSE Head(trades).profit + SumAllProfit(Tail(trades))

RECURSIVE SumTodaysProfit(_)
\* closedTrades.filter(closeTime && isToday(closeTime)).reduce(sum + profit)
SumTodaysProfit(trades) ==
    IF trades = << >> THEN 0
    ELSE (IF Head(trades).closeTime # << >> /\ isToday(Head(trades).closeTime[1])
          THEN Head(trades).profit ELSE 0)
         + SumTodaysProfit(Tail(trades))

\* Insert t into a list sorted by openTime descending, after its equals
\* (Array.prototype.sort is stable).
RECURSIVE InsertByOpenTime(_, _)
InsertByOpenTime(sorted, t) ==
    IF sorted = << >> THEN << t >>
    ELSE IF Head(sorted).openTime >= t.openTime
         THEN << Head(sorted) >> \o InsertByOpenTime(Tail(sorted), t)
         ELSE << t >> \o sorted

RECURSIVE SortByOpenTimeDesc(_)
SortByOpenTimeDesc(trades) ==
    IF trades = << >> THEN << >>
    ELSE InsertByOpenTime(SortByOpenTimeDesc(SubSeq(trades, 1, Len(trades) - 1)),
                          trades[Len(trades)])

\* What the backend's two order endpoints return: positions, and history.
RECURSIVE OrdersWhere(_, _)
OrdersWhere(orders, open) ==
    IF orders = << >> THEN << >>
    ELSE (IF (Head(orders).closeTime = << >>) = open
          THEN << Head(orders) >> ELSE << >>)
         \o OrdersWhere(Tail(orders), open)

InFlight ==
    BagCardinality(sendOrders) + BagCardinality(orderFetches)
    + BagCardinality(accountFetches)

hasOpenOrders == \E i \in 1..Len(tradeHistory) : tradeHistory[i].status = "OPEN"

\* typeof val === 'number' && !isNaN(val) ? val : 0
safeNumber(val) == IF IsNaN(val) THEN JSNum(0) ELSE val

getRecommendedLotSize == getCurrentLevel(safeNumber(JSNum(account.equity))).lotSize

NewOrderFetch == [open |-> [st |-> "pending", data |-> << >>],
                  closed |-> [st |-> "pending", data |-> << >>]]

NewAccountFetch == [st |-> "pending", equity |-> 0]

\* handleLoginSuccess and the effect it triggers: the first fetches.
handleLoginSuccess ==
    /\ ~isLoggedIn
    /\ InFlight + 2 <= MaxInFlight
    /\ isLoggedIn' = TRUE
    /\ accountFetches' = BagAdd(accountFetches, NewAccountFetch)
    /\ orderFetches' = BagAdd(orderFetches, NewOrderFetch)
    /\ UNCHANGED <<account, tradeHistory, dailyRealizedProfit, isModalVisible,
                   tradeType, serverVars, sendOrders, engineVars, connVars>>

\* The 5-second interval: fetchAccountSummary(); fetchAllOrders().
PollTick ==
    /\ isLoggedIn
    /\ InFlight + 2 <= MaxInFlight
    /\ accountFetches' = BagAdd(accountFetches, NewAccountFetch)
    /\ orderFetches' = BagAdd(orderFetches, NewOrderFetch)
    /\ UNCHANGED <<clientVars, serverVars, sendOrders, engineVars, connVars>>

handleLogout ==
    /\ isLoggedIn
    /\ isLoggedIn' = FALSE
    /\ account' = mockAccountData
    /\ tradeHistory' = << >>
    /\ dailyRealizedProfit' = 0
    /\ UNCHANGED <<isModalVisible, tradeType, serverVars, flightVars, engineVars, connVars>>

\* The backend answers the getOpenedOrders of fetch f, or the request fails
\* and .catch(() => []) turns it into an empty list.
ServerOpenedOrders(f) ==
    /\ BagIn(f, orderFetches)
    /\ f.open.st = "pending"
    /\ \/ orderFetches' = BagAdd(BagRemove(orderFetches, f),
              [f EXCEPT !.open = [st |-> "done",
                                  data |-> OrdersWhere(serverOrders, TRUE)]])
       \/ orderFetches' = BagAdd(BagRemove(orderFetches, f),
              [f EXCEPT !.open = [st |-> "done", data |-> << >>]])
    /\ UNCHANGED <<clientVars, serverVars, sendOrders, accountFetches, engineVars, connVars>>

ServerClosedOrders(f) ==
    /\ BagIn(f, orderFetches)
    /\ f.closed.st = "pending"
    /\ \/ orderFetches' = BagAdd(BagRemove(orderFetches, f),
              [f EXCEPT !.closed = [st |-> "done",
                                    data |-> OrdersWhere(serverOrders, FALSE)]])
       \/ orderFetches' = BagAdd(BagRemove(orderFetches, f),
              [f EXCEPT !.closed = [st |-> "done", data |-> << >>]])
    /\ UNCHANGED <<clientVars, serverVars, sendOrders, accountFetches, engineVars, connVars>>

\* fetchAllOrders after Promise.all has resolved.
fetchAllOrders(f) ==
    /\ BagIn(f, orderFetches)
    /\ f.open.st # "pending"
    /\ f.closed.st # "pending"
    /\ LET openTrades == MapOrders(FilterOrders(f.open.data), TRUE)
           closedTrades == MapOrders(FilterOrders(f.closed.data), FALSE)
       IN /\ dailyRealizedProfit' = SumTodaysProfit(closedTrades)
          /\ tradeHistory' = SortByOpenTimeDesc(openTrades \o closedTrades)
          /\ account' = [account EXCEPT !.openPositions = Len(openTrades)]
    /\ orderFetches' = BagRemove(orderFetches, f)
    /\ UNCHANGED <<isLoggedIn, isModalVisible, tradeType, serverVars,
                   sendOrders, accountFetches, engineVars, connVars>>

\* The backend answers the getAccountSummary of fetch f; or the request fails,
\* .catch(() => null) makes the summary null, and fetchAccountSummary ends
\* without touching the state.
ServerAccountSummary(f) ==
    /\ BagIn(f, accountFetches)
    /\ f.st = "pending"
    /\ \/ accountFetches' = BagAdd(BagRemove(accountFetches, f),
              [st |-> "ok", equity |-> serverEquity])
       \/ accountFetches' = BagRemove(accountFetches, f)
    /\ UNCHANGED <<clientVars, serverVars, sendOrders, orderFetches, engineVars, connVars>>

fetchAccountSummary(f) ==
    /\ BagIn(f, accountFetches)
    /\ f.st # "pending"
    /\ account' = IF f.st = "ok"
                  THEN [equity |-> f.equity, openPositions |-> 0]
                  ELSE account
    /\ accountFetches' = BagRemove(accountFetches, f)
    /\ UNCHANGED <<isLoggedIn, tradeHistory, dailyRealizedProfit, isModalVisible,
                   tradeType, serverVars, sendOrders, orderFetches, engineVars, connVars>>

\* The two early returns only show an alert.
handleTrade(type) ==
    /\ isLoggedIn
    /\ IF isDailyTargetReached(safeNumber(JSNum(account.equity)),
                               JSNum(dailyRealizedProfit))
       THEN UNCHANGED <<tradeType, isModalVisible>>
       ELSE IF hasOpenOrders
       THEN UNCHANGED <<tradeType, isModalVisible>>
       ELSE /\ tradeType' = type
            /\ isModalVisible' = TRUE
    /\ UNCHANGED <<isLoggedIn, account, tradeHistory, dailyRealizedProfit,
                   serverVars, flightVars, engineVars, connVars>>

\* The disabled prop App passes to TradingButtons, with the target gate only.
disabledTargetOnly ==
    isDailyTargetReached(safeNumber(JSNum(account.equity)), JSNum(dailyRealizedProfit))

\* The disabled prop App passes to TradingButtons.
disabled ==
    \/ isDailyTargetReached(safeNumber(JSNum(account.equity)),
                            JSNum(dailyRealizedProfit))
    \/ hasOpenOrders

\* The onPress prop of a TradingButtons button: disabled ? undefined : handler.
onPress(handler) == IF disabled THEN "undefined" ELSE handler

\* The trader presses Sell or Buy on the trade screen.
PressTradingButton(type) ==
    /\ isLoggedIn
    /\ onPress(IF type = "BUY" THEN "onBuy" ELSE "onSell") # "undefined"
    /\ handleTrade(type)

\* onClose of the trade modal.
closeModal ==
    /\ isLoggedIn
    /\ isModalVisible
    /\ isModalVisible' = FALSE
    /\ UNCHANGED <<isLoggedIn, account, tradeHistory, dailyRealizedProfit,
                   tradeType, serverVars, flightVars, engineVars, connVars>>

\* executeTrade without its open-order check.
executeTradeNoOpenCheck ==
    /\ isLoggedIn
    /\ isModalVisible
    /\ IF isDailyTargetReached(JSNum(account.equity), JSNum(dailyRealizedProfit))
       THEN /\ isModalVisible' = FALSE
            /\ UNCHANGED sendOrders
       ELSE /\ InFlight < MaxInFlight
            /\ sendOrders' = BagAdd(sendOrders,
                   [operation |-> IF tradeType = "BUY" THEN "Buy" ELSE "Sell",
                    volume |-> getRecommendedLotSize,
                    st |-> "sent"])
            /\ UNCHANGED isModalVisible
    /\ UNCHANGED <<isLoggedIn, account, tradeHistory, dailyRealizedProfit,
                   tradeType, serverVars, orderFetches, accountFetches, engineVars, connVars>>

\* executeTrade up to its await: the two checks, then the sendOrder call.
executeTrade ==
    /\ isLoggedIn
    /\ isModalVisible
    /\ IF isDailyTargetReached(JSNum(account.equity), JSNum(dailyRealizedProfit))
       THEN /\ isModalVisible' = FALSE
            /\ UNCHANGED sendOrders
       ELSE IF hasOpenOrders
       THEN /\ isModalVisible' = FALSE
            /\ UNCHANGED sendOrders
       ELSE /\ InFlight < MaxInFlight
            /\ sendOrders' = BagAdd(sendOrders,
                   [operation |-> IF tradeType = "BUY" THEN "Buy" ELSE "Sell",
                    volume |-> getRecommendedLotSize,
                    st |-> "sent"])
            /\ UNCHANGED isModalVisible
    /\ UNCHANGED <<isLoggedIn, account, tradeHistory, dailyRealizedProfit,
                   tradeType, serverVars, orderFetches, accountFetches, engineVars, connVars>>

\* The backend executes order request r (a new position opens), or rejects it.
ServerSendOrder(r) ==
    /\ BagIn(r, sendOrders)
    /\ r.st = "sent"
    /\ \/ /\ Len(serverOrders) < MaxTickets + 2
          /\ serverOrders' = Append(serverOrders,
                 [ticket |-> Len(serverOrders), orderType |-> r.operation,
                  symbol |-> "XAUUSDm", profit |-> FloatingProfit,
                  closeTime |-> << >>,
                  closePrice |-> 0, state |-> "Filled"])
          /\ sendOrders' = BagAdd(BagRemove(sendOrders, r), [r EXCEPT !.st = "ok"])
       \/ /\ sendOrders' = BagAdd(BagRemove(sendOrders, r), [r EXCEPT !.st = "error"])
          /\ UNCHANGED serverOrders
    /\ UNCHANGED <<clientVars, serverEquity, today, orderFetches, accountFetches,
                   engineVars, connVars>>

\* executeTrade after its await: the success path (which refreshes the
\* orders) and the catch block.
executeTradeResumes(r) ==
    /\ BagIn(r, sendOrders)
    /\ r.st # "sent"
    /\ IF r.st = "ok"
       THEN orderFetches' = BagAdd(orderFetches, NewOrderFetch)
       ELSE UNCHANGED orderFetches
    /\ isModalVisible' = FALSE
    /\ sendOrders' = BagRemove(sendOrders, r)
    /\ UNCHANGED <<isLoggedIn, account, tradeHistory, dailyRealizedProfit,
                   tradeType, serverVars, accountFetches, engineVars, connVars>>

\* A position is closed at the backend (stop loss, take profit, or a close
\* request) with some realized profit. Equity already counts the floating
\* profit, so it does not move.
ServerClosePosition(t, profit) ==
    /\ t \in 1..Len(serverOrders)
    /\ serverOrders[t].closeTime = << >>
    /\ serverOrders' = [serverOrders EXCEPT ![t].closeTime = << today >>,
                                            ![t].closePrice = 1,
                                            ![t].profit = profit]
    /\ UNCHANGED <<clientVars, serverEquity, today, flightVars, engineVars, connVars>>

----------------------------------------------------------------------------
(* backendApi.ts: the saved session and the throttled reconnect that every *)
(* API call runs first.                                                    *)

ENSURE_CONNECTED_INTERVAL == 30000

\* The clock starts at StartTime and advances in steps of TickMs, at most
\* MaxTicks times; at most MaxCalls API calls run at once.
StartTime == 100000
TickMs == 10000
MaxTicks == 4
MaxCalls == 2
MaxCredentialsSent == 3

\* No restoreSession call has been made.
NoRestore ==
    [pc |-> "idle", saved |-> FALSE, contacted |-> FALSE, status |-> "none",
     reconnect |-> "none", ret |-> "none"]

InitConn ==
    /\ now = StartTime
    /\ lastEnsureConnectedTime = 0
    /\ savedCredentials = TRUE
    /\ apiCalls = EmptyBag
    /\ clearing = FALSE
    /\ credentialsSent = << >>
    /\ restore = NoRestore

Tick ==
    /\ now < StartTime + MaxTicks * TickMs
    /\ now' = now + TickMs
    /\ UNCHANGED <<lastEnsureConnectedTime, savedCredentials, apiCalls, clearing,
                   credentialsSent, engineVars, clientVars, serverVars, flightVars, restore>>

\* getAccountSummary, getAccountDetails, getQuote, getOpenedOrders,
\* getClosedOrders, sendOrder or closeOrder is called: it enters
\* ensureConnected, which reads the clock and either returns at once or
\* goes on to await getSavedCredentials().
ApiCall ==
    /\ BagCardinality(apiCalls) < MaxCalls
    /\ apiCalls' =
           IF now - lastEnsureConnectedTime < ENSURE_CONNECTED_INTERVAL
           THEN BagAdd(apiCalls, [pc |-> "backendFetch", now |-> 0])
           ELSE BagAdd(apiCalls, [pc |-> "getSavedCredentials", now |-> now])
    /\ UNCHANGED <<now, lastEnsureConnectedTime, savedCredentials, clearing,
                   credentialsSent, engineVars, clientVars, serverVars, flightVars, restore>>

\* getSavedCredentials() resolves in call c: with credentials, ensureConnected
\* posts them to the backend (setMt5Credentials); without, it returns.
ensureConnectedReadsCredentials(c) ==
    /\ BagIn(c, apiCalls)
    /\ c.pc = "getSavedCredentials"
    /\ IF savedCredentials
       THEN /\ Len(credentialsSent) < MaxCredentialsSent
            /\ credentialsSent' = Append(credentialsSent, now)
            /\ apiCalls' = BagAdd(BagRemove(apiCalls, c),
                                  [c EXCEPT !.pc = "setMt5Credentials"])
       ELSE /\ apiCalls' = BagAdd(BagRemove(apiCalls, c),
                                  [pc |-> "backendFetch", now |-> 0])
            /\ UNCHANGED credentialsSent
    /\ UNCHANGED <<now, lastEnsureConnectedTime, savedCredentials, clearing,
                   engineVars, clientVars, serverVars, flightVars, restore>>

\* setMt5Credentials resolves in call c (it never throws): ensureConnected
\* stores the time it read on entry and the call goes on to its request.
ensureConnectedStoresTime(c) ==
    /\ BagIn(c, apiCalls)
    /\ c.pc = "setMt5Credentials"
    /\ lastEnsureConnectedTime' = c.now
    /\ apiCalls' = BagAdd(BagRemove(apiCalls, c), [pc |-> "backendFetch", now |-> 0])
    /\ UNCHANGED <<now, savedCredentials, clearing, credentialsSent,
                   engineVars, clientVars, serverVars, flightVars, restore>>

\* The request of call c is answered (or fails) and the call ends.
backendFetch(c) ==
    /\ BagIn(c, apiCalls)
    /\ c.pc = "backendFetch"
    /\ apiCalls' = BagRemove(apiCalls, c)
    /\ UNCHANGED <<now, lastEnsureConnectedTime, savedCredentials, clearing,
                   credentialsSent, engineVars, clientVars, serverVars, flightVars, restore>>

\* clearSession up to the end of its await: the credentials are deleted.
\* The record of posted credentials starts afresh with the call.
clearSession ==
    /\ ~clearing
    /\ savedCredentials
    /\ savedCredentials' = FALSE
    /\ clearing' = TRUE
    /\ credentialsSent' = << >>
    /\ UNCHANGED <<now, lastEnsureConnectedTime, apiCalls,
                   engineVars, clientVars, serverVars, flightVars, restore>>

\* clearSession after its await: the throttle is reset.
clearSessionResumes ==
    /\ clearing
    /\ lastEnsureConnectedTime' = 0
    /\ clearing' = FALSE
    /\ UNCHANGED <<now, savedCredentials, apiCalls, credentialsSent,
                   engineVars, clientVars, serverVars, flightVars, restore>>

\* connectMt5 at the next login saves the credentials again.
connectMt5 ==
    /\ ~savedCredentials
    /\ savedCredentials' = TRUE
    /\ UNCHANGED <<now, lastEnsureConnectedTime, apiCalls, clearing, credentialsSent,
                   engineVars, clientVars, serverVars, flightVars, restore>>

\* restoreSession is called (on app launch) and awaits getSavedCredentials().
restoreSession ==
    /\ restore.pc \in {"idle", "done"}
    /\ restore' = [NoRestore EXCEPT !.pc = "getSavedCredentials"]
    /\ UNCHANGED <<now, lastEnsureConnectedTime, savedCredentials, apiCalls,
                   clearing, credentialsSent, engineVars, clientVars, serverVars,
                   flightVars>>

\* getSavedCredentials() resolves: the credentials, or null when none are
\* stored or Storage fails. Without credentials restoreSession returns false;
\* with them it asks the backend for its status.
restoreSessionReadsCredentials ==
    /\ restore.pc = "getSavedCredentials"
    /\ \E saved \in {savedCredentials, FALSE} :
           restore' = IF saved
                      THEN [restore EXCEPT !.pc = "getMt5Status", !.saved = TRUE,
                                           !.contacted = TRUE]
                      ELSE [restore EXCEPT !.pc = "done", !.ret = "false"]
    /\ UNCHANGED <<now, lastEnsureConnectedTime, savedCredentials, apiCalls,
                   clearing, credentialsSent, engineVars, clientVars, serverVars,
                   flightVars>>

\* getMt5Status() resolves (a failed request reads as not connected).
restoreSessionGetsStatus ==
    /\ restore.pc = "getMt5Status"
    /\ \E isConnected \in BOOLEAN :
           restore' = IF isConnected
                      THEN [restore EXCEPT !.pc = "done", !.status = "connected",
                                           !.ret = "true"]
                      ELSE [restore EXCEPT !.pc = "saveLoginCredentials",
                                           !.status = "notConnected"]
    /\ UNCHANGED <<now, lastEnsureConnectedTime, savedCredentials, apiCalls,
                   clearing, credentialsSent, engineVars, clientVars, serverVars,
                   flightVars>>

\* connectMt5 that lets a Storage failure escape from restoreSession.
restoreSessionSavesCredentialsNoCatch ==
    /\ restore.pc = "saveLoginCredentials"
    /\ \/ /\ savedCredentials' = TRUE
          /\ restore' = [restore EXCEPT !.pc = "setMt5Credentials"]
       \/ /\ restore' = [restore EXCEPT !.pc = "done", !.reconnect = "error",
                                         !.ret = "threw"]
          /\ UNCHANGED savedCredentials
    /\ UNCHANGED <<now, lastEnsureConnectedTime, apiCalls, clearing,
                   credentialsSent, engineVars, clientVars, serverVars, flightVars>>

\* connectMt5(saved): saveLoginCredentials stores the credentials and the
\* request to the backend goes out; or Storage.setItem throws, the catch
\* block of restoreSession runs and it returns false.
restoreSessionSavesCredentials ==
    /\ restore.pc = "saveLoginCredentials"
    /\ \/ /\ savedCredentials' = TRUE
          /\ restore' = [restore EXCEPT !.pc = "setMt5Credentials"]
       \/ /\ restore' = [restore EXCEPT !.pc = "done", !.reconnect = "error",
                                         !.ret = "false"]
          /\ UNCHANGED savedCredentials
    /\ UNCHANGED <<now, lastEnsureConnectedTime, apiCalls, clearing,
                   credentialsSent, engineVars, clientVars, serverVars, flightVars>>

\* setMt5Credentials resolves with the backend's answer (a failed request
\* reads as connected: false) and restoreSession returns result.connected.
restoreSessionReconnects ==
    /\ restore.pc = "setMt5Credentials"
    /\ \E connected \in BOOLEAN :
           restore' = [restore EXCEPT
                          !.pc = "done",
                          !.reconnect = IF connected THEN "connected"
                                        ELSE "notConnected",
                          !.ret = IF connected THEN "true" ELSE "false"]
    /\ UNCHANGED <<now, lastEnsureConnectedTime, savedCredentials, apiCalls,
                   clearing, credentialsSent, engineVars, clientVars, serverVars,
                   flightVars>>

NextRestore ==
    \/ restoreSession
    \/ restoreSessionReadsCredentials
    \/ restoreSessionGetsStatus
    \/ restoreSessionSavesCredentials
    \/ restoreSessionReconnects
    \/ clearSession
    \/ clearSessionResumes
    \/ connectMt5
    \/ Tick

NextConnect ==
    \/ Tick
    \/ ApiCall
    \/ \E c \in BagToSet(apiCalls) : ensureConnectedReadsCredentials(c)
    \/ \E c \in BagToSet(apiCalls) : ensureConnectedStoresTime(c)
    \/ \E c \in BagToSet(apiCalls) : backendFetch(c)
    \/ clearSession
    \/ clearSessionResumes
    \/ connectMt5

----------------------------------------------------------------------------
(* The client as a whole.                                                  *)

Init ==
    /\ moneyManagementLevels = LevelTable
    /\ balance = JSNum(0)
    /\ dailyProfit = JSNum(0)
    /\ ret = [op |-> "none", level |-> << >>, num |-> JSNum(0), flag |-> FALSE]
    /\ InitApp
    /\ InitConn

Next ==
    \/ handleLoginSuccess
    \/ PollTick
    \/ handleLogout
    \/ \E f \in BagToSet(orderFetches) : ServerOpenedOrders(f)
    \/ \E f \in BagToSet(orderFetches) : ServerClosedOrders(f)
    \/ \E f \in BagToSet(orderFetches) : fetchAllOrders(f)
    \/ \E f \in BagToSet(accountFetches) : ServerAccountSummary(f)
    \/ \E f \in BagToSet(accountFetches) : fetchAccountSummary(f)
    \/ \E type \in TradeTypes : PressTradingButton(type)
    \/ closeModal
    \/ executeTrade
    \/ \E r \in BagToSet(sendOrders) : ServerSendOrder(r)
    \/ \E r \in BagToSet(sendOrders) : executeTradeResumes(r)
    \/ \E t \in 1..Len(serverOrders), profit \in ProfitOutcomes :
           ServerClosePosition(t, profit)

Spec == Init /\ [][Next]_vars

SpecConnect == Init /\ [][NextConnect]_vars

SpecRestore == Init /\ [][NextRestore]_vars

----------------
(* The engine as a state machine: a caller holds an account snapshot and   *)
(* calls the engine's functions on it in any order.                        *)

ProbeDelta == 1

Thresholds == {LevelTable[i].balance : i \in 1..Len(LevelTable)}
DailyTargets == {LevelTable[i].dailyTarget : i \in 1..Len(LevelTable)}

BalanceInputs ==
    {JSNum(t + e) : t \in Thresholds, e \in (0 - ProbeDelta)..ProbeDelta}
    \cup {JSNum(0), JSNum(-1), JSNum(-10000), JSNum(12500), JSNum(18750)}
    \cup {NaN, PosInf, NegInf}

ProfitInputs ==
    {JSNum(t + e) : t \in DailyTargets, e \in (0 - ProbeDelta)..ProbeDelta}
    \cup {JSNum(0), JSNum(-1), JSNum(-300), JSNum(150)}
    \cup {NaN, PosInf, NegInf}

NoRet == [op |-> "none", level |-> << >>, num |-> JSNum(0), flag |-> FALSE]

InitEngine ==
    /\ moneyManagementLevels = LevelTable
    /\ balance \in BalanceInputs
    /\ dailyProfit \in ProfitInputs
    /\ ret = NoRet
    /\ InitApp
    /\ InitConn

\* getCurrentLevel that marks the tier it returns as completed in the table.
CallGetCurrentLevelMarksCompleted ==
    /\ ret' = [NoRet EXCEPT !.op = "getCurrentLevel",
                            !.level = << getCurrentLevel(balance) >>]
    /\ moneyManagementLevels' =
           [moneyManagementLevels EXCEPT
               ![getCurrentLevel(balance).level].completed = TRUE]
    /\ UNCHANGED <<balance, dailyProfit, appVars>>

CallGetCurrentLevel ==
    /\ ret' = [NoRet EXCEPT !.op = "getCurrentLevel",
                            !.level = << getCurrentLevel(balance) >>]
    /\ UNCHANGED <<moneyManagementLevels, balance, dailyProfit, appVars>>

CallGetNextLevel ==
    /\ ret' = [NoRet EXCEPT !.op = "getNextLevel",
                            !.level = getNextLevel(balance)]
    /\ UNCHANGED <<moneyManagementLevels, balance, dailyProfit, appVars>>

CallGetProgressToNextLevel ==
    /\ ret' = [NoRet EXCEPT !.op = "getProgressToNextLevel",
                            !.num = getProgressToNextLevel(balance)]
    /\ UNCHANGED <<moneyManagementLevels, balance, dailyProfit, appVars>>

CallIsDailyTargetReached ==
    /\ ret' = [NoRet EXCEPT !.op = "isDailyTargetReached",
                            !.flag = isDailyTargetReached(balance, dailyProfit)]
    /\ UNCHANGED <<moneyManagementLevels, balance, dailyProfit, appVars>>

CallGetRemainingDailyTarget ==
    /\ ret' = [NoRet EXCEPT !.op = "getRemainingDailyTarget",
                            !.num = getRemainingDailyTarget(balance, dailyProfit)]
    /\ UNCHANGED <<moneyManagementLevels, balance, dailyProfit, appVars>>

CallGetDailyTargetProgress ==
    /\ ret' = [NoRet EXCEPT !.op = "getDailyTargetProgress",
                            !.num = getDailyTargetProgress(balance, dailyProfit)]
    /\ UNCHANGED <<moneyManagementLevels, balance, dailyProfit, appVars>>

NextEngine ==
    \/ CallGetCurrentLevel
    \/ CallGetNextLevel
    \/ CallGetProgressToNextLevel
    \/ CallIsDailyTargetReached
    \/ CallGetRemainingDailyTarget
    \/ CallGetDailyTargetProgress

SpecEngine == InitEngine /\ [][NextEngine]_vars

----------------------------------------------------------------------------
(* The engine over other level tables: every table of up to MaxTiers tiers *)
(* with thresholds 100.00, 200.00, ... whose tiers each have a daily       *)
(* target of 0 or of 3% of the threshold.                                  *)

MaxTiers == 2

TierWithTarget(i, pct) ==
    MoneyLevel(i, 10000 * i, i, pct * 100 * i, 5 * pct * 100 * i, 20 * pct * 100 * i)

TablesWithZeroTargets ==
    UNION {{[i \in 1..n |-> TierWithTarget(i, pcts[i])] : pcts \in [1..n -> {0, 3}]} :
           n \in 1..MaxTiers}

TableBalanceInputs ==
    {JSNum(10000 * i + e) : i \in 0..MaxTiers, e \in {-1, 0}}
    \cup {NaN, PosInf, NegInf}

TableProfitInputs ==
    {JSNum(0), JSNum(-300), JSNum(150), JSNum(300), JSNum(301), NaN, PosInf, NegInf}

InitTables ==
    /\ moneyManagementLevels \in TablesWithZeroTargets
    /\ balance \in TableBalanceInputs
    /\ dailyProfit \in TableProfitInputs
    /\ ret = NoRet
    /\ InitApp
    /\ InitConn

SpecTables == InitTables /\ [][NextEngine]_vars

----------------------------------------------------------------------------
(* Properties of the engine, checked under SpecEngine.                     *)

\* The tiers a balance qualifies for, and the tier the design assigns to it:
\* the one with the largest threshold <= balance, or the lowest tier as floor.
Qualifies(b) ==
    {i \in 1..Len(moneyManagementLevels) :
         jsLe(JSNum(moneyManagementLevels[i].balance), b)}

TierIndex(b) ==
    IF Qualifies(b) = {} THEN 1
    ELSE CHOOSE i \in Qualifies(b) :
             \A j \in Qualifies(b) :
                 moneyManagementLevels[j].balance <= moneyManagementLevels[i].balance

InRange0To100(x) == jsGe(x, JSNum(0)) /\ jsLe(x, JSNum(100))

TopThreshold == moneyManagementLevels[Len(moneyManagementLevels)].balance

\* C1: for a balance at or above the lowest threshold, getCurrentLevel returns
\* the tier with the largest threshold <= balance; a balance equal to a
\* threshold resolves to that very tier.
C1_CurrentTierIsLargestQualifying ==
    (ret.op = "getCurrentLevel" /\ Qualifies(balance) # {}) =>
        \E i \in Qualifies(balance) :
            /\ ret.level = << moneyManagementLevels[i] >>
            /\ \A j \in Qualifies(balance) :
                   moneyManagementLevels[j].balance <= moneyManagementLevels[i].balance
            /\ \A j \in 1..Len(moneyManagementLevels) :
                   jsEq(balance, JSNum(moneyManagementLevels[j].balance)) => j = i

C1_Witness ==
    /\ ret.op = "getCurrentLevel"
    /\ balance = JSNum(15000)
    /\ ret.level = << moneyManagementLevels[2] >>

\* C2: for a balance below the lowest threshold (zero and negative included)
\* getCurrentLevel returns the level-1 tier, never "no tier".
C2_FloorAtLevelOne ==
    (ret.op = "getCurrentLevel"
     /\ ~IsNaN(balance)
     /\ Less(balance, JSNum(moneyManagementLevels[1].balance))) =>
        /\ Len(ret.level) = 1
        /\ ret.level[1].level = 1
        /\ ret.level[1] = moneyManagementLevels[1]

C2_Witness ==
    /\ ret.op = "getCurrentLevel"
    /\ balance = JSNum(-1)
    /\ ret.level = << moneyManagementLevels[1] >>

\* C3: isDailyTargetReached is true exactly when dailyProfit >= the daily
\* target of the balance's tier; equal to the target stops, one cent less
\* does not.
C3_GateExact ==
    ret.op = "isDailyTargetReached" =>
        (ret.flag <=>
            jsGe(dailyProfit,
                 JSNum(moneyManagementLevels[TierIndex(balance)].dailyTarget)))

C3_Witness ==
    /\ ret.op = "isDailyTargetReached"
    /\ balance = JSNum(10000)
    /\ dailyProfit = JSNum(300)
    /\ ret.flag

\* C4: getNextLevel is the tier right after the current tier in table order
\* (level = current level + 1), and null exactly when the current tier is the
\* last one.
C4_NextFollowsCurrent ==
    ret.op = "getNextLevel" =>
        LET i == TierIndex(balance)
        IN /\ (ret.level = << >>) <=> (i = Len(moneyManagementLevels))
           /\ i < Len(moneyManagementLevels) =>
                  /\ ret.level = << moneyManagementLevels[i + 1] >>
                  /\ ret.level[1].level = moneyManagementLevels[i].level + 1

C4_Witness ==
    /\ ret.op = "getNextLevel"
    /\ balance = JSNum(15000)
    /\ ret.level = << moneyManagementLevels[3] >>

\* C5: at or above the highest threshold getNextLevel is null and
\* getProgressToNextLevel is exactly 100.
C5_MaxLevelSaturation ==
    jsGe(balance, JSNum(TopThreshold)) =>
        /\ ret.op = "getNextLevel" => ret.level = << >>
        /\ ret.op = "getProgressToNextLevel" => ret.num = JSNum(100)

C5_Witness ==
    /\ ret.op = "getProgressToNextLevel"
    /\ balance = JSNum(22168368)
    /\ ret.num = JSNum(100)

\* C6: for every numeric balance, negative ones and ones below the first
\* threshold included, getProgressToNextLevel lies in [0, 100].
C6_ProgressClamped ==
    (ret.op = "getProgressToNextLevel" /\ ~IsNaN(balance)) =>
        InRange0To100(ret.num)

C6_Witness ==
    /\ ret.op = "getProgressToNextLevel"
    /\ balance = JSNum(-1)
    /\ jsEq(ret.num, JSNum(0))

\* C7: for every numeric balance and dailyProfit, getDailyTargetProgress lies
\* in [0, 100], and a negative dailyProfit yields 0.
C7_TargetProgressClamped ==
    (ret.op = "getDailyTargetProgress" /\ ~IsNaN(balance) /\ ~IsNaN(dailyProfit)) =>
        /\ InRange0To100(ret.num)
        /\ Less(dailyProfit, JSNum(0)) => jsEq(ret.num, JSNum(0))

\* C8: a non-finite input given as balance or dailyProfit is treated as 0:
\* the four functions return what they return for 0, never NaN or Infinity.
TreatedAsZero(x) == IF IsFinite(x) THEN x ELSE JSNum(0)

C8_MalformedTreatedAsZero ==
    (~IsFinite(balance) \/ ~IsFinite(dailyProfit)) =>
        /\ ret.op = "getCurrentLevel" =>
               ret.level = << getCurrentLevel(TreatedAsZero(balance)) >>
        /\ ret.op = "getProgressToNextLevel" =>
               /\ IsFinite(ret.num)
               /\ ret.num = getProgressToNextLevel(TreatedAsZero(balance))
        /\ ret.op = "getDailyTargetProgress" =>
               /\ IsFinite(ret.num)
               /\ ret.num = getDailyTargetProgress(TreatedAsZero(balance),
                                                   TreatedAsZero(dailyProfit))
        /\ ret.op = "isDailyTargetReached" =>
               ret.flag = isDailyTargetReached(TreatedAsZero(balance),
                                               TreatedAsZero(dailyProfit))

\* C12: the level table is non-empty, its levels start at 1 and strictly
\* increase, its balance thresholds strictly increase in the same order, and
\* no level or threshold occurs twice.
C12_TableSortedNoDuplicates ==
    LET t == moneyManagementLevels
    IN /\ Len(t) >= 1
       /\ t[1].level = 1
       /\ \A i \in 1..(Len(t) - 1) :
              /\ t[i].level < t[i + 1].level
              /\ t[i].balance < t[i + 1].balance
       /\ \A i, j \in 1..Len(t) :
              (t[i].level = t[j].level \/ t[i].balance = t[j].balance) => i = j

C12_Witness ==
    /\ ret.op = "getCurrentLevel"
    /\ Len(moneyManagementLevels) = 20
    /\ moneyManagementLevels[1].level = 1
    /\ moneyManagementLevels[20].level = 20
    /\ moneyManagementLevels[19].balance < moneyManagementLevels[20].balance

\* C13: across the level table lotSize is positive and never smaller than a
\* lower tier's, and every daily, weekly and monthly target is non-negative.
C13_LotsNonDecreasingTargetsNonNegative ==
    LET t == moneyManagementLevels
    IN /\ \A i \in 1..Len(t) :
              /\ t[i].lotSize > 0
              /\ t[i].dailyTarget >= 0
              /\ t[i].weeklyTarget >= 0
              /\ t[i].monthlyTarget >= 0
       /\ \A i, j \in 1..Len(t) : i < j => t[i].lotSize <= t[j].lotSize

C13_Witness ==
    /\ ret.op = "getNextLevel"
    /\ moneyManagementLevels[1].lotSize = moneyManagementLevels[2].lotSize
    /\ moneyManagementLevels[2].lotSize < moneyManagementLevels[3].lotSize
    /\ moneyManagementLevels[20].lotSize = 5000

\* pct percent of the threshold, to the nearest cent: the target is at most
\* half a cent away from it.
NearestCent(target, threshold, pct) ==
    LET diff == 100 * target - pct * threshold
    IN diff <= 50 /\ diff >= -50

\* C14: for every tier the daily, weekly and monthly targets are 3%, 15% and
\* 60% of the tier's balance threshold, to the nearest cent.
C14_TargetsAreFixedPercentages ==
    \A i \in 1..Len(moneyManagementLevels) :
        LET l == moneyManagementLevels[i]
        IN /\ NearestCent(l.dailyTarget, l.balance, 3)
           /\ NearestCent(l.weeklyTarget, l.balance, 15)
           /\ NearestCent(l.monthlyTarget, l.balance, 60)

\* C15 as stated: a balance of 224.99 resolves to level 1, and a balance of
\* 150 resolves to level 2 with lotSize 0.01 and dailyTarget 4.50.
C15_ExampleAsStated ==
    ret.op = "getCurrentLevel" =>
        /\ balance = JSNum(22499) => ret.level[1].level = 1
        /\ balance = JSNum(15000) =>
               /\ ret.level[1].level = 2
               /\ ret.level[1].lotSize = 1
               /\ ret.level[1].dailyTarget = 450

\* C15 amended: a balance of 224.99 resolves to level 2 (it is just below the
\* level-3 threshold of 225.00), and a balance of 150 resolves to level 2
\* with lotSize 0.01 and dailyTarget 4.50.
C15_ExampleAmended ==
    ret.op = "getCurrentLevel" =>
        /\ balance = JSNum(22499) =>
               /\ ret.level[1].level = 2
               /\ moneyManagementLevels[3].balance = 22500
        /\ balance = JSNum(15000) =>
               /\ ret.level[1].level = 2
               /\ ret.level[1].lotSize = 1
               /\ ret.level[1].dailyTarget = 450

C15_Witness ==
    /\ ret.op = "getCurrentLevel"
    /\ balance = JSNum(22499)
    /\ ret.level[1].level = 2
    /\ ret.level[1].dailyTarget = 450

\* The fraction n/d (d > 0) in lowest terms.
RECURSIVE Gcd(_, _)
Gcd(a, b) == IF b = 0 THEN a ELSE Gcd(b, a % b)

LowestTerms(n, d) ==
    LET g == Gcd(IF n < 0 THEN 0 - n ELSE n, d)
    IN << n \div g, d \div g >>

\* C16: when a next tier exists and the balance lies between the current
\* threshold c and the next threshold n (c <= balance < n),
\* getProgressToNextLevel is the linear interpolation:
\* progress * (n - c) = (balance - c) * 100.
C16_LinearInterpolation ==
    (ret.op = "getProgressToNextLevel" /\ IsFinite(balance)) =>
        \A i \in 1..(Len(moneyManagementLevels) - 1) :
            LET c == moneyManagementLevels[i].balance
                n == moneyManagementLevels[i + 1].balance
            IN (jsLe(JSNum(c), balance) /\ Less(balance, JSNum(n))) =>
                   /\ IsFinite(ret.num)
                   /\ LowestTerms(ret.num.n, ret.num.d) =
                          LowestTerms((balance.n - c * balance.d) * 100,
                                      (n - c) * balance.d)

C16_Witness ==
    /\ ret.op = "getProgressToNextLevel"
    /\ balance = JSNum(12500)
    /\ jsEq(ret.num, JSNum(50))

\* C17: whenever the current tier's dailyTarget is 0, getDailyTargetProgress
\* returns 0 for every dailyProfit: never NaN, never an infinity.
C17_ZeroTargetGuard ==
    (ret.op = "getDailyTargetProgress"
     /\ moneyManagementLevels[TierIndex(balance)].dailyTarget = 0) =>
        /\ IsFinite(ret.num)
        /\ ret.num = JSNum(0)

C17_Witness ==
    /\ ret.op = "getDailyTargetProgress"
    /\ moneyManagementLevels[TierIndex(balance)].dailyTarget = 0
    /\ dailyProfit = JSNum(300)
    /\ ret.num = JSNum(0)

\* C18: the engine is pure. No call changes the level table, which stays at
\* its initial value; no call changes its arguments or any state outside the
\* engine; and what a call returns is taken from the initial table whatever
\* calls were made before it.
C18_EnginePure ==
    [][/\ moneyManagementLevels' = moneyManagementLevels
       /\ moneyManagementLevels' = LevelTable
       /\ balance' = balance
       /\ dailyProfit' = dailyProfit
       /\ appVars' = appVars
       /\ ret'.op = "getCurrentLevel" =>
              ret'.level = << LevelTable[TierIndex(balance)] >>
       /\ ret'.op = "getNextLevel" =>
              \/ ret'.level = << >>
              \/ \E i \in 1..Len(LevelTable) : ret'.level = << LevelTable[i] >>]_vars

C18_Witness ==
    /\ ret.op = "getRemainingDailyTarget"
    /\ moneyManagementLevels = LevelTable
    /\ balance = JSNum(10000)
    /\ dailyProfit = JSNum(150)
    /\ jsEq(ret.num, JSNum(150))

\* C23: tier assignment is monotonic in the balance: for balances b1 <= b2
\* the tier of b1 has a level and a lot size no larger than the tier of b2.
C23_TierMonotonic ==
    ret.op = "getCurrentLevel" =>
        \A b2 \in BalanceInputs :
            /\ jsLe(balance, b2) =>
                   /\ ret.level[1].level <= getCurrentLevel(b2).level
                   /\ ret.level[1].lotSize <= getCurrentLevel(b2).lotSize
            /\ jsLe(b2, balance) =>
                   /\ getCurrentLevel(b2).level <= ret.level[1].level
                   /\ getCurrentLevel(b2).lotSize <= ret.level[1].lotSize

C23_Witness ==
    /\ ret.op = "getCurrentLevel"
    /\ balance = JSNum(22500)
    /\ ret.level[1].level = 3
    /\ getCurrentLevel(JSNum(22499)).level = 2
    /\ getCurrentLevel(JSNum(22499)).lotSize < ret.level[1].lotSize

\* C24: whenever getNextLevel(balance) is not null, its threshold is strictly
\* greater than the balance, also for balances below the first threshold.
C24_NextThresholdAboveBalance ==
    (ret.op = "getNextLevel" /\ ~IsNaN(balance) /\ ret.level # << >>) =>
        Less(balance, JSNum(ret.level[1].balance))

C24_Witness ==
    /\ ret.op = "getNextLevel"
    /\ balance = JSNum(-1)
    /\ ret.level # << >>
    /\ ret.level[1].level = 2
    /\ Less(balance, JSNum(ret.level[1].balance))

\* C25: for every balance and every numeric dailyProfit,
\* getRemainingDailyTarget is >= 0, and it is 0 exactly when
\* isDailyTargetReached is true.
C25_RemainingAgreesWithGate ==
    (ret.op = "getRemainingDailyTarget" /\ ~IsNaN(dailyProfit)) =>
        /\ jsGe(ret.num, JSNum(0))
        /\ jsEq(ret.num, JSNum(0)) <=> isDailyTargetReached(balance, dailyProfit)
        /\ jsEq(ret.num, JSNum(0)) <=>
               jsGe(dailyProfit,
                    JSNum(moneyManagementLevels[TierIndex(balance)].dailyTarget))

C25_Witness ==
    /\ ret.op = "getRemainingDailyTarget"
    /\ balance = JSNum(10000)
    /\ dailyProfit = JSNum(301)
    /\ jsEq(ret.num, JSNum(0))
    /\ isDailyTargetReached(balance, dailyProfit)

----------------------------------------------------------------------------
(* Properties of the trade flow, checked under Spec.                       *)

PositionOpenOnAccount ==
    \E t \in 1..Len(serverOrders) : serverOrders[t].closeTime = << >>

\* The two gates, read off the client's state.
TargetReachedOnClient ==
    jsGe(JSNum(dailyRealizedProfit),
         JSNum(moneyManagementLevels[TierIndex(JSNum(account.equity))].dailyTarget))

OpenTradeInHistory ==
    \E i \in 1..Len(tradeHistory) : tradeHistory[i].status = "OPEN"

GatesClear == ~TargetReachedOnClient /\ ~OpenTradeInHistory

\* C9: the client never calls sendOrder while a position is open on the
\* account or while an earlier sendOrder of this client is still in flight.
C9_NoSubmitWhilePositionOrInFlight ==
    [][BagCardinality(sendOrders') > BagCardinality(sendOrders) =>
           (~PositionOpenOnAccount /\ sendOrders = EmptyBag)]_vars

\* C10: the trade ticket opens (modal shown, tradeType set) only when, on the
\* client's state, the daily target is not reached and no trade in
\* tradeHistory is OPEN; executeTrade calls sendOrder only when both hold at
\* the moment it is invoked, and otherwise closes the modal without sending.
C10_GatesCheckedBeforeSubmission ==
    [][/\ ((isModalVisible' /\ ~isModalVisible) \/ tradeType' # tradeType) =>
              (GatesClear /\ isModalVisible' /\ tradeType' \in {"BUY", "SELL"})
       /\ BagCardinality(sendOrders') > BagCardinality(sendOrders) => GatesClear
       /\ executeTrade =>
              IF GatesClear
              THEN BagCardinality(sendOrders') = BagCardinality(sendOrders) + 1
              ELSE sendOrders' = sendOrders /\ ~isModalVisible']_vars

C10_Witness ==
    /\ isModalVisible
    /\ tradeType = "BUY"
    /\ BagCardinality(sendOrders) = 1
    /\ GatesClear

\* C11: whenever the trade screen is rendered (the user is logged in), the
\* Buy/Sell buttons are disabled if and only if the daily target is reached
\* on the account equity and dailyRealizedProfit or some trade in tradeHistory
\* is OPEN; when disabled, neither button has a press handler.
C11_ButtonsDisabledIffGated ==
    isLoggedIn =>
        /\ disabled <=> (TargetReachedOnClient \/ OpenTradeInHistory)
        /\ disabled => /\ onPress("onBuy") = "undefined"
                       /\ onPress("onSell") = "undefined"
                       /\ \A type \in {"BUY", "SELL"} : ~ENABLED PressTradingButton(type)
        /\ ~disabled => onPress("onBuy") = "onBuy" /\ onPress("onSell") = "onSell"

C11_Witness ==
    /\ isLoggedIn
    /\ disabled
    /\ OpenTradeInHistory
    /\ ~TargetReachedOnClient
    /\ onPress("onBuy") = "undefined"

----------------------------------------------------------------------------
(* Properties of the order poll, checked under Spec.                       *)

\* The realized profit of today among the orders a fetch received: the sum
\* over the closed orders that are trades (not Balance or Credit operations)
\* and whose close day is the current day.
RECURSIVE RealizedToday(_)
RealizedToday(orders) ==
    IF orders = << >> THEN 0
    ELSE LET o == orders[Len(orders)]
         IN RealizedToday(SubSeq(orders, 1, Len(orders) - 1))
            + (IF /\ o.orderType \notin {"Balance", "Credit"}
                  /\ o.closeTime = << today >>
               THEN o.profit ELSE 0)

\* C20: when an order fetch completes, dailyRealizedProfit becomes the sum of
\* the profit of exactly the closed trades it received whose closeTime is on
\* the current UTC day; open trades, trades closed on other days and
\* Balance/Credit operations add nothing.
C20_DailyProfitIsTodaysClosedSum ==
    [][\A f \in BagToSet(orderFetches) :
           fetchAllOrders(f) =>
               dailyRealizedProfit' = RealizedToday(f.closed.data)]_vars

C20_Witness ==
    /\ isLoggedIn
    /\ dailyRealizedProfit = 450
    /\ \E i \in 1..Len(tradeHistory) :
           /\ tradeHistory[i].status = "CLOSED"
           /\ tradeHistory[i].closeTime = << today >>
           /\ tradeHistory[i].profit = 450
    /\ \E i \in 1..Len(tradeHistory) :
           /\ tradeHistory[i].closeTime = << today - 1 >>
           /\ tradeHistory[i].profit = 300
    /\ \E t \in 1..Len(serverOrders) :
           /\ serverOrders[t].orderType = "Balance"
           /\ serverOrders[t].closeTime = << today >>

\* C26: after logout the client state stays reset: while nobody is logged
\* in, account, tradeHistory and dailyRealizedProfit are at their default
\* values, whatever fetches that were in flight at logout do when they
\* complete.
C26_StateStaysResetAfterLogout ==
    ~isLoggedIn =>
        /\ account = mockAccountData
        /\ tradeHistory = << >>
        /\ dailyRealizedProfit = 0

\* C27: whenever no account fetch and no order fetch is in flight,
\* account.openPositions is the number of trades in tradeHistory whose status
\* is OPEN, in whichever order the two fetches of a poll completed.
C27_OpenPositionsMatchesHistory ==
    (orderFetches = EmptyBag /\ accountFetches = EmptyBag) =>
        account.openPositions =
            Cardinality({i \in 1..Len(tradeHistory) : tradeHistory[i].status = "OPEN"})

----------------------------------------------------------------------------
(* Properties of the session layer, checked under SpecConnect.             *)

\* C19: whatever API calls run concurrently, between two clearSession calls
\* ensureConnected posts the saved credentials to the backend at most once
\* in any 30-second window: any two posts are at least
\* ENSURE_CONNECTED_INTERVAL apart.
C19_CredentialsSentOncePerWindow ==
    \A i, j \in 1..Len(credentialsSent) :
        i < j => credentialsSent[j] - credentialsSent[i] >= ENSURE_CONNECTED_INTERVAL

\* C21: clearSession deletes the saved credentials and resets the throttle,
\* so in the next session (clearSession has finished, credentials are saved
\* again, none were posted since) an ensureConnected call does not return
\* early but goes on to re-send the credentials, however recently the
\* previous session posted them.
C21_NextSessionReconnects ==
    [][(ApiCall /\ ~clearing /\ savedCredentials /\ credentialsSent = << >>) =>
           LET c == [pc |-> "getSavedCredentials", now |-> now]
           IN CopiesIn(c, apiCalls') = CopiesIn(c, apiCalls) + 1]_vars

\* C22: restoreSession never throws. It returns false without contacting the
\* backend when no credentials are saved, true when the backend reports
\* connected, otherwise what reconnecting with the saved credentials
\* returned, and false on any error.
C22_RestoreSessionNeverThrows ==
    restore.pc = "done" =>
        /\ restore.ret \in {"true", "false"}
        /\ ~restore.saved => (restore.ret = "false" /\ ~restore.contacted)
        /\ restore.status = "connected" => restore.ret = "true"
        /\ (restore.status = "notConnected" /\ restore.reconnect = "connected") =>
               restore.ret = "true"
        /\ (restore.status = "notConnected" /\ restore.reconnect = "notConnected") =>
               restore.ret = "false"
        /\ restore.reconnect = "error" => restore.ret = "false"

C22_Witness ==
    /\ restore.pc = "done"
    /\ restore.saved
    /\ restore.status = "notConnected"
    /\ restore.reconnect = "error"
    /\ restore.ret = "false"

====
